---- MODULE Spec2Model ----
(***************************************************************************)
(* Model of the CCIP-read metadata builder                                 *)
(* (rust/main/agents/relayer/src/msg/metadata/ccip_read/mod.rs):           *)
(* CcipReadIsmMetadataBuilder::call_get_offchain_verify_info (the          *)
(* resolver, with its cache) and MetadataBuilder::build (the endpoint      *)
(* fetch loop).  Every .await of the source is the end of one action.      *)
(*                                                                         *)
(* Texts (revert strings, URL templates, the `data` field of a response)   *)
(* are sequences of one-character strings; byte strings are sequences of   *)
(* numbers in 0..255.                                                      *)
(***************************************************************************)
EXTENDS Integers, Sequences, FiniteSets, TLC

\* cache:  the call-result cache shared by all invocations
\* st:     the invocations of build
\* latest: per cache key, the descriptor of the most recent resolution (cache
\*         hit or revert decoded); a history of the run, read by no action
VARIABLES cache, st, latest

vars == <<cache, st, latest>>

\* ------------------------------------------------------------------------
\* Bounds of the model
\* ------------------------------------------------------------------------

\* longest enumerated revert text (all texts over TextAlphabet up to this length)
MaxTextLen == 3

\* longest `urls` list of a descriptor
MaxUrls == 2

\* ------------------------------------------------------------------------
\* Texts and bytes
\* ------------------------------------------------------------------------

HexDigits == <<"0", "1", "2", "3", "4", "5", "6", "7", "8", "9",
               "a", "b", "c", "d", "e", "f">>

UpperHexDigits == <<"0", "1", "2", "3", "4", "5", "6", "7", "8", "9",
                    "A", "B", "C", "D", "E", "F">>

\* [[:xdigit:]] of the regex, and the characters hex_decode accepts
IsXDigit(c) ==
    \E k \in DOMAIN HexDigits : HexDigits[k] = c \/ UpperHexDigits[k] = c

HexVal(c) ==
    (CHOOSE k \in DOMAIN HexDigits : HexDigits[k] = c \/ UpperHexDigits[k] = c) - 1

Nibbles == Len(HexDigits)

RECURSIVE HexPairs(_)
HexPairs(s) ==
    IF s = <<>> THEN <<>>
    ELSE <<HexVal(s[1]) * Nibbles + HexVal(s[2])>> \o HexPairs(SubSeq(s, 3, Len(s)))

\* hex_decode: an odd number of characters or a non-hex character is an error
hex_decode(s) ==
    IF Len(s) % 2 = 0 /\ \A k \in DOMAIN s : IsXDigit(s[k])
    THEN [ok |-> TRUE, bytes |-> HexPairs(s)]
    ELSE [ok |-> FALSE, bytes |-> <<>>]

RECURSIVE hex_encode(_)
hex_encode(b) ==
    IF b = <<>> THEN <<>>
    ELSE <<HexDigits[(b[1] \div Nibbles) + 1], HexDigits[(b[1] % Nibbles) + 1]>>
         \o hex_encode(Tail(b))

\* bytes_to_hex(..) and Bytes::to_string(): "0x" followed by lowercase hex
bytes_to_hex(b) == <<"0", "x">> \o hex_encode(b)

\* str::contains(pat)
StrContains(s, pat) ==
    \E k \in 1..(Len(s) - Len(pat) + 1) : SubSeq(s, k, k + Len(pat) - 1) = pat

\* str::replace(pat, to): every non-overlapping match, left to right
RECURSIVE StrReplace(_, _, _)
StrReplace(s, pat, to) ==
    IF Len(s) < Len(pat) THEN s
    ELSE IF SubSeq(s, 1, Len(pat)) = pat
         THEN to \o StrReplace(SubSeq(s, Len(pat) + 1, Len(s)), pat, to)
         ELSE <<s[1]>> \o StrReplace(Tail(s), pat, to)

SenderToken == <<"{", "s", "e", "n", "d", "e", "r", "}">>
DataToken == <<"{", "d", "a", "t", "a", "}">>

\* ------------------------------------------------------------------------
\* Revert-payload decoding (mod.rs 68-76)
\* ------------------------------------------------------------------------

\* does `0x[[:xdigit:]]+` match at position k of s
MatchesAt(s, k) ==
    /\ k + 2 <= Len(s)
    /\ s[k] = "0"
    /\ s[k + 1] = "x"
    /\ IsXDigit(s[k + 2])

\* leftmost position at or after k where the regex matches, 0 if none
RECURSIVE FindFrom(_, _)
FindFrom(s, k) ==
    IF k > Len(s) THEN 0
    ELSE IF MatchesAt(s, k) THEN k
    ELSE FindFrom(s, k + 1)

\* last position of the greedy run of hex digits that contains position k
RECURSIVE RunEnd(_, _)
RunEnd(s, k) ==
    IF k + 1 <= Len(s) /\ IsXDigit(s[k + 1]) THEN RunEnd(s, k + 1) ELSE k

NoMatch == <<>>

\* captures with the regex `0x[[:xdigit:]]*`: a bare `0x` matches too
captures_StarQuantifier(s) ==
    LET found == {k \in 1..(Len(s) - 1) : s[k] = "0" /\ s[k + 1] = "x"}
        k == CHOOSE j \in found : \A i \in found : j <= i
    IN  IF found = {} THEN NoMatch ELSE SubSeq(s, k, RunEnd(s, k + 1))

\* matching_regex.captures(text), group 0: the first match, or NoMatch
captures(s) ==
    LET k == FindFrom(s, 1)
    IN  IF k = 0 THEN NoMatch ELSE SubSeq(s, k, RunEnd(s, k + 2))

\* URL templates a descriptor can name
UrlTemplates ==
    << <<"a", "/">> \o SenderToken \o <<"/">> \o DataToken,
       <<"b", "/">> \o SenderToken >>

\* OffchainLookup::decode, on a compact stand-in for the ABI tuple encoding:
\* byte 1 is the sender address, byte 2 the number n of urls, the next n bytes
\* name the url templates, the remaining bytes are call_data.
AbiDecode(b) ==
    IF /\ Len(b) >= 2
       /\ Len(b) >= 2 + b[2]
       /\ \A k \in 1..b[2] : b[2 + k] \in DOMAIN UrlTemplates
    THEN [ok |-> TRUE,
          info |-> [sender |-> <<b[1]>>,
                    urls |-> [k \in 1..b[2] |-> UrlTemplates[b[2 + k]]],
                    call_data |-> SubSeq(b, 3 + b[2], Len(b))]]
    ELSE [ok |-> FALSE, info |-> <<>>]

\* the encoding AbiDecode inverts, for a sender s, template numbers u, call_data d
AbiEncode(s, u, d) == s \o <<Len(u)>> \o u \o d

\* the Err(raw_error) arm returning Err when the regex does not match
DecodeRevert_NoMatchIsError(raw_error) ==
    LET matching == captures(raw_error)
        hexed == hex_decode(SubSeq(matching, 3, Len(matching)))
        abi == AbiDecode(hexed.bytes)
    IN  IF matching = NoMatch
        THEN [kind |-> "error", hex_tried |-> FALSE, abi_tried |-> FALSE, info |-> <<>>]
        ELSE IF ~hexed.ok
        THEN [kind |-> "error", hex_tried |-> TRUE, abi_tried |-> FALSE, info |-> <<>>]
        ELSE IF ~abi.ok
        THEN [kind |-> "error", hex_tried |-> TRUE, abi_tried |-> TRUE, info |-> <<>>]
        ELSE [kind |-> "info", hex_tried |-> TRUE, abi_tried |-> TRUE, info |-> abi.info]

\* the Err(raw_error) arm swallowing decode failures (`.ok()` instead of `?`)
DecodeRevert_DecodeFailIsNone(raw_error) ==
    LET matching == captures(raw_error)
        hexed == hex_decode(SubSeq(matching, 3, Len(matching)))
        abi == AbiDecode(hexed.bytes)
    IN  IF matching = NoMatch
        THEN [kind |-> "none", hex_tried |-> FALSE, abi_tried |-> FALSE, info |-> <<>>]
        ELSE IF ~hexed.ok
        THEN [kind |-> "none", hex_tried |-> TRUE, abi_tried |-> FALSE, info |-> <<>>]
        ELSE IF ~abi.ok
        THEN [kind |-> "none", hex_tried |-> TRUE, abi_tried |-> TRUE, info |-> <<>>]
        ELSE [kind |-> "info", hex_tried |-> TRUE, abi_tried |-> TRUE, info |-> abi.info]

\* outcome of the Err(raw_error) arm: "none" (no match), "error" (`?` on
\* hex_decode or on decode), or "info"
DecodeRevert(raw_error) ==
    LET matching == captures(raw_error)
        hexed == hex_decode(SubSeq(matching, 3, Len(matching)))
        abi == AbiDecode(hexed.bytes)
    IN  IF matching = NoMatch
        THEN [kind |-> "none", hex_tried |-> FALSE, abi_tried |-> FALSE, info |-> <<>>]
        ELSE IF ~hexed.ok
        THEN [kind |-> "error", hex_tried |-> TRUE, abi_tried |-> FALSE, info |-> <<>>]
        ELSE IF ~abi.ok
        THEN [kind |-> "error", hex_tried |-> TRUE, abi_tried |-> TRUE, info |-> <<>>]
        ELSE [kind |-> "info", hex_tried |-> TRUE, abi_tried |-> TRUE, info |-> abi.info]

\* ------------------------------------------------------------------------
\* Inputs: what the module and the endpoints can answer
\* ------------------------------------------------------------------------

RECURSIVE SeqsUpTo(_, _)
SeqsUpTo(S, n) ==
    IF n = 0 THEN {<<>>}
    ELSE LET shorter == SeqsUpTo(S, n - 1)
         IN  shorter \cup {Append(q, c) : q \in shorter, c \in S}

TextAlphabet == {"0", "x", "z"}

ShortTexts == SeqsUpTo(TextAlphabet, MaxTextLen)

\* url lists of a descriptor: template numbers, no template twice
TemplateLists ==
    {u \in SeqsUpTo(DOMAIN UrlTemplates, MaxUrls) :
        \A j, k \in DOMAIN u : u[j] = u[k] => j = k}

Sender == <<198>>
CallData == <<18>>
Reason == <<"e", ":", " ">>

\* reverts that carry a well-formed payload
PayloadTexts ==
    {Reason \o bytes_to_hex(AbiEncode(Sender, u, CallData)) : u \in TemplateLists}

\* reverts whose hex run decodes to bytes that are not a well-formed payload:
\* the encoding cut after the url count
TruncatedTexts ==
    {Reason \o bytes_to_hex(Sender \o <<Len(u)>>) : u \in TemplateLists \ {<<>>}}

RevertTexts == ShortTexts \cup PayloadTexts \cup TruncatedTexts

\* `data` fields an endpoint can answer with
DataStrings ==
    { <<"0", "x", "1", "2", "3", "4">>,
      <<"0", "x", "z", "z">>,
      <<"a", "b", "1", "2">>,
      <<"0">> }

\* what one endpoint request can come back with: a transport error from
\* send()/get(), a body that is not an OffchainResponse, or one that is
Replies ==
    {[kind |-> "transport_error", data |-> <<>>],
     [kind |-> "bad_json", data |-> <<>>]}
    \cup {[kind |-> "json", data |-> d] : d \in DataStrings}

Modules == {"ismA", "ismB"}

\* HyperlaneMessage values handed to build
Messages == {[nonce |-> 1, body |-> <<>>], [nonce |-> 2, body |-> <<>>]}

\* answers of ism.get_offchain_verify_info: Ok(_) or Err(raw_error)
Responses ==
    {[kind |-> "ok", raw_error |-> <<>>]}
    \cup {[kind |-> "err", raw_error |-> t] : t \in RevertTexts}

\* ------------------------------------------------------------------------
\* Cache (get_cached_call_result / cache_call_result)
\* ------------------------------------------------------------------------

fn_name == "get_offchain_verify_info"

\* RawHyperlaneMessage::from(message).to_vec()
RawMessage(message) == <<3, message.nonce>> \o message.body

CacheKey(contract_address, name, params) == <<contract_address, name, params>>

Keys == {CacheKey(a, fn_name, RawMessage(m)) : a \in Modules, m \in Messages}

NoEntry == [stored |-> FALSE]

\* SerializedOffchainLookup::from(info)
Serialize(info) ==
    [stored |-> TRUE, sender |-> bytes_to_hex(info.sender), urls |-> info.urls,
     call_data |-> bytes_to_hex(info.call_data)]

\* SerializedOffchainLookup::into()
Deserialize(entry) ==
    [sender |-> hex_decode(SubSeq(entry.sender, 3, Len(entry.sender))).bytes,
     urls |-> entry.urls,
     call_data |-> hex_decode(SubSeq(entry.call_data, 3, Len(entry.call_data))).bytes]

\* a stored value that does not deserialize into SerializedOffchainLookup
Malformed == [stored |-> TRUE, malformed |-> TRUE]

\* get_cached_call_result::<SerializedOffchainLookup>: Some(entry) when the
\* key holds a value that deserializes, None (NoEntry) otherwise; the result
\* is an Option, so a value that does not deserialize cannot come back as
\* an error
CacheGet(c, key) == IF c[key] = Malformed THEN NoEntry ELSE c[key]

\* cache_call_result: store the value under the key
CachePut(c, key, value) == [c EXCEPT ![key] = value]


\* ------------------------------------------------------------------------
\* One endpoint request (mod.rs 111-142)
\* ------------------------------------------------------------------------

NoBody == [sender |-> <<>>, data |-> <<>>]

\* BuildRequest choosing the method by the substituted URL
BuildRequest_DecideOnInterpolated(url, info) ==
    LET sender_as_bytes == bytes_to_hex(info.sender)
        data_as_bytes == bytes_to_hex(info.call_data)
        interpolated_url ==
            StrReplace(StrReplace(url, SenderToken, sender_as_bytes),
                       DataToken, data_as_bytes)
    IN  IF ~StrContains(interpolated_url, DataToken)
        THEN [method |-> "POST", url |-> interpolated_url, template |-> url,
              content_type |-> "application/json",
              body |-> [sender |-> sender_as_bytes, data |-> data_as_bytes]]
        ELSE [method |-> "GET", url |-> interpolated_url, template |-> url,
              content_type |-> "", body |-> NoBody]

\* the request build issues for the template url of the descriptor info
BuildRequest(url, info) ==
    LET sender_as_bytes == bytes_to_hex(info.sender)
        data_as_bytes == bytes_to_hex(info.call_data)
        interpolated_url ==
            StrReplace(StrReplace(url, SenderToken, sender_as_bytes),
                       DataToken, data_as_bytes)
    IN  IF ~StrContains(url, DataToken)
        THEN [method |-> "POST", url |-> interpolated_url, template |-> url,
              content_type |-> "application/json",
              body |-> [sender |-> sender_as_bytes, data |-> data_as_bytes]]
        ELSE [method |-> "GET", url |-> interpolated_url, template |-> url,
              content_type |-> "", body |-> NoBody]

\* HandleReply with `?` on res.json().await
HandleReply_BadJsonIsError(reply) ==
    IF reply.kind \in {"transport_error", "bad_json"}
    THEN [kind |-> "error", bytes |-> <<>>]
    ELSE IF Len(reply.data) < 2
    THEN [kind |-> "panic", bytes |-> <<>>]
    ELSE LET metadata == hex_decode(SubSeq(reply.data, 3, Len(reply.data)))
         IN  IF metadata.ok
             THEN [kind |-> "some", bytes |-> metadata.bytes]
             ELSE [kind |-> "error", bytes |-> <<>>]

\* what build does with the answer to one request:
\*   "error"  `?` returns Err from build (send/get failed, or hex_decode failed)
\*   "next"   res.json() failed: try the next URL
\*   "some"   return Ok(Some(metadata))
\*   "panic"  result.data[2..] sliced past the end of the string
HandleReply(reply) ==
    IF reply.kind = "transport_error"
    THEN [kind |-> "error", bytes |-> <<>>]
    ELSE IF reply.kind = "bad_json"
    THEN [kind |-> "next", bytes |-> <<>>]
    ELSE IF Len(reply.data) < 2
    THEN [kind |-> "panic", bytes |-> <<>>]
    ELSE LET metadata == hex_decode(SubSeq(reply.data, 3, Len(reply.data)))
         IN  IF metadata.ok
             THEN [kind |-> "some", bytes |-> metadata.bytes]
             ELSE [kind |-> "error", bytes |-> <<>>]

\* ------------------------------------------------------------------------
\* State
\* ------------------------------------------------------------------------

\* invocations of build that can be in flight together
Procs == {"p1", "p2"}

\* the invocation that runs alone, one build after the other
Sequential == {"p1"}

NoInfo == [sender |-> <<>>, urls |-> <<>>, call_data |-> <<>>]
NoResponse == [kind |-> "none", raw_error |-> <<>>]
Pending == [kind |-> "pending", bytes |-> <<>>]

\* one invocation of build: its position, its locals, and what it has done
Fresh ==
    [pc |-> "idle",
     ism_address |-> "",
     message |-> [nonce |-> 0, body |-> <<>>],
     info_from_cache |-> NoEntry,
     response |-> NoResponse,
     hex_tried |-> FALSE,
     abi_tried |-> FALSE,
     info |-> NoInfo,
     resolved |-> "pending",
     endpoints |-> <<>>,
     requests |-> <<>>,
     result |-> Pending,
     cache_reads |-> 0,
     cache_writes |-> 0,
     ism_calls |-> 0]

\* KeyOf leaving the message out of the key
KeyOf_FixedMessage(t) ==
    CacheKey(t.ism_address, fn_name, RawMessage([nonce |-> 1, body |-> <<>>]))

\* (contract_address, fn_name, &parsed_message) of an invocation
KeyOf(t) == CacheKey(t.ism_address, fn_name, RawMessage(t.message))

Init ==
    /\ cache = [k \in Keys |-> NoEntry]
    /\ st = [p \in Procs |-> Fresh]
    /\ latest = [k \in Keys |-> NoInfo]

\* ------------------------------------------------------------------------
\* build (mod.rs 96-147) and call_get_offchain_verify_info (mod.rs 42-90)
\* ------------------------------------------------------------------------

NoneResult == [kind |-> "none", bytes |-> <<>>]
ErrorResult == [kind |-> "error", bytes |-> <<>>]

\* `build_ccip_read_ism(ism_address).await.context(CTX)?` for the invocation
\* build(a, m): on to the resolver, or Err
StartStep(a, m, ism_built) ==
    IF ism_built
    THEN [Fresh EXCEPT !.pc = "cache_get", !.ism_address = a, !.message = m]
    ELSE [Fresh EXCEPT !.pc = "done", !.ism_address = a, !.message = m,
                       !.result = ErrorResult]

\* the descriptor an invocation has just resolved becomes the latest of its key
Resolved(p) ==
    latest' = IF st'[p].pc = "cache_put"
              THEN [latest EXCEPT ![KeyOf(st'[p])] = st'[p].info]
              ELSE latest

\* build(a, m) is invoked, for a in modules and m in messages
BuildStartOn(p, modules, messages) ==
    /\ st[p].pc \in {"idle", "done"}
    /\ \E a \in modules, m \in messages, ism_built \in BOOLEAN :
         st' = [st EXCEPT ![p] = StartStep(a, m, ism_built)]
    /\ UNCHANGED <<cache, latest>>

BuildStart(p) == BuildStartOn(p, Modules, Messages)

\* ReadStep calling the module whatever the cache answered
ReadStep_AlwaysCall(t, found) ==
    [t EXCEPT !.pc = "ism_call", !.info_from_cache = found, !.cache_reads = @ + 1]

\* ReadStep returning Err where the cache gave nothing
ReadStep_MissIsError(t, found) ==
    IF found # NoEntry
    THEN [t EXCEPT !.pc = "cache_put", !.info_from_cache = found,
                   !.info = Deserialize(found), !.cache_reads = @ + 1]
    ELSE [t EXCEPT !.pc = "done", !.info_from_cache = found,
                   !.cache_reads = @ + 1, !.resolved = "error",
                   !.result = [kind |-> "error", bytes |-> <<>>]]

\* `match info_from_cache`: Some(info) => info.into(), None => call the module
ReadStep(t, found) ==
    IF found # NoEntry
    THEN [t EXCEPT !.pc = "cache_put", !.info_from_cache = found,
                   !.info = Deserialize(found), !.cache_reads = @ + 1]
    ELSE [t EXCEPT !.pc = "ism_call", !.info_from_cache = found,
                   !.cache_reads = @ + 1]

\* get_cached_call_result(..).await
CacheRead(p) ==
    /\ st[p].pc = "cache_get"
    /\ st' = [st EXCEPT ![p] = ReadStep(@, CacheGet(cache, KeyOf(@)))]
    /\ Resolved(p)
    /\ UNCHANGED cache

\* OnResponse taking Ok(_) for a failure
OnResponse_OkIsError(response) ==
    IF response.kind = "ok"
    THEN [kind |-> "error", hex_tried |-> FALSE, abi_tried |-> FALSE, info |-> <<>>]
    ELSE DecodeRevert(response.raw_error)

\* outcome of the None arm for one answer of the module
OnResponse(response) ==
    IF response.kind = "ok"
    THEN [kind |-> "none", hex_tried |-> FALSE, abi_tried |-> FALSE, info |-> <<>>]
    ELSE DecodeRevert(response.raw_error)

\* CallStep going on to the cache write with an empty descriptor where the
\* source returns Ok(None)
CallStep_WriteDefault(t, response) ==
    LET out == OnResponse(response)
        called == [t EXCEPT !.response = response, !.ism_calls = @ + 1,
                            !.hex_tried = out.hex_tried, !.abi_tried = out.abi_tried]
    IN  IF out.kind = "info"
        THEN [called EXCEPT !.pc = "cache_put", !.info = out.info]
        ELSE IF out.kind = "none"
        THEN [called EXCEPT !.pc = "cache_put", !.info = NoInfo]
        ELSE [called EXCEPT !.pc = "done", !.resolved = "error", !.result = ErrorResult]

\* CallStep going on to the cache write with an empty descriptor where the
\* source returns Err
CallStep_WriteOnError(t, response) ==
    LET out == OnResponse(response)
        called == [t EXCEPT !.response = response, !.ism_calls = @ + 1,
                            !.hex_tried = out.hex_tried, !.abi_tried = out.abi_tried]
    IN  IF out.kind = "info"
        THEN [called EXCEPT !.pc = "cache_put", !.info = out.info]
        ELSE IF out.kind = "none"
        THEN [called EXCEPT !.pc = "done", !.resolved = "none", !.result = NoneResult]
        ELSE [called EXCEPT !.pc = "cache_put", !.info = NoInfo]

\* `match response`: return Ok(None), return Err (`?`), or go on with info
CallStep(t, response) ==
    LET out == OnResponse(response)
        called == [t EXCEPT !.response = response, !.ism_calls = @ + 1,
                            !.hex_tried = out.hex_tried, !.abi_tried = out.abi_tried]
    IN  IF out.kind = "info"
        THEN [called EXCEPT !.pc = "cache_put", !.info = out.info]
        ELSE IF out.kind = "none"
        THEN [called EXCEPT !.pc = "done", !.resolved = "none", !.result = NoneResult]
        ELSE [called EXCEPT !.pc = "done", !.resolved = "error", !.result = ErrorResult]

\* ism.get_offchain_verify_info(parsed_message).await, answered from responses
IsmCallFrom(p, responses) ==
    /\ st[p].pc = "ism_call"
    /\ \E response \in responses : st' = [st EXCEPT ![p] = CallStep(@, response)]
    /\ Resolved(p)
    /\ UNCHANGED cache

IsmCall(p) == IsmCallFrom(p, Responses)

\* EnterUrl taking an empty url list for a failure
EnterUrl_EmptyIsError(t, url_idx) ==
    IF Len(t.info.urls) = 0
    THEN [t EXCEPT !.pc = "done", !.result = ErrorResult]
    ELSE IF url_idx > Len(t.info.urls)
    THEN [t EXCEPT !.pc = "done", !.result = NoneResult]
    ELSE [t EXCEPT !.pc = "fetch"]

\* the head of `for url in info.urls.iter()` at the url_idx-th url:
\* Ok(None) after the loop when nothing is left to try
EnterUrl(t, url_idx) ==
    IF url_idx > Len(t.info.urls)
    THEN [t EXCEPT !.pc = "done", !.result = NoneResult]
    ELSE [t EXCEPT !.pc = "fetch"]

\* Ok(Some(info)) of the resolver and the entry of the loop of build;
\* world is what each endpoint of info.urls answers during this build
WriteStep(t, world) ==
    EnterUrl([t EXCEPT !.resolved = "some", !.cache_writes = @ + 1,
                       !.endpoints = world], 1)

\* CacheWriteWith writing only after a miss: a hit leaves the cache alone
CacheWriteWith_SkipOnHit(p, replies) ==
    /\ st[p].pc = "cache_put"
    /\ cache' = IF st[p].info_from_cache # NoEntry
                THEN cache
                ELSE CachePut(cache, KeyOf(st[p]), Serialize(st[p].info))
    /\ \E world \in [DOMAIN st[p].info.urls -> replies] :
         st' = [st EXCEPT ![p] = WriteStep(@, world)]
    /\ UNCHANGED latest

\* CacheWriteWith as put-if-absent: an entry already under the key is kept
\* and returned in place of the invocation's own descriptor
CacheWriteWith_KeepExisting(p, replies) ==
    /\ st[p].pc = "cache_put"
    /\ LET kept == IF cache[KeyOf(st[p])] # NoEntry
                   THEN Deserialize(cache[KeyOf(st[p])])
                   ELSE st[p].info
       IN  /\ cache' = CachePut(cache, KeyOf(st[p]), Serialize(kept))
           /\ \E world \in [DOMAIN kept.urls -> replies] :
                st' = [st EXCEPT ![p] = WriteStep([@ EXCEPT !.info = kept], world)]
    /\ UNCHANGED latest

\* cache_call_result(.., &SerializedOffchainLookup::from(info.clone())).await,
\* with endpoints that answer from replies
CacheWriteWith(p, replies) ==
    /\ st[p].pc = "cache_put"
    /\ cache' = CachePut(cache, KeyOf(st[p]), Serialize(st[p].info))
    /\ \E world \in [DOMAIN st[p].info.urls -> replies] :
         st' = [st EXCEPT ![p] = WriteStep(@, world)]
    /\ UNCHANGED latest

CacheWrite(p) == CacheWriteWith(p, Replies)

\* FetchStep walking the url list from its end
FetchStep_FromLast(t) ==
    LET url_idx == Len(t.requests) + 1
        request == BuildRequest(t.info.urls[Len(t.info.urls) + 1 - url_idx], t.info)
        out == HandleReply(t.endpoints[url_idx])
        sent == [t EXCEPT !.requests = Append(@, request)]
    IN  IF out.kind = "next"
        THEN EnterUrl(sent, url_idx + 1)
        ELSE [sent EXCEPT !.pc = "done", !.result = out]

\* one iteration of the loop: the request for the next url and its answer
FetchStep(t) ==
    LET url_idx == Len(t.requests) + 1
        request == BuildRequest(t.info.urls[url_idx], t.info)
        out == HandleReply(t.endpoints[url_idx])
        sent == [t EXCEPT !.requests = Append(@, request)]
    IN  IF out.kind = "next"
        THEN EnterUrl(sent, url_idx + 1)
        ELSE [sent EXCEPT !.pc = "done", !.result = out]

\* send()/get() and res.json().await
FetchUrl(p) ==
    /\ st[p].pc = "fetch"
    /\ st' = [st EXCEPT ![p] = FetchStep(@)]
    /\ UNCHANGED <<cache, latest>>

Next ==
    \E p \in Sequential :
        \/ BuildStart(p)
        \/ CacheRead(p)
        \/ IsmCall(p)
        \/ CacheWrite(p)
        \/ FetchUrl(p)

Spec == Init /\ [][Next]_vars

\* ------------------------------------------------------------------------
\* Invocations in flight together, on fewer answers
\* ------------------------------------------------------------------------

ConcMessages == {[nonce |-> 1, body |-> <<>>]}

\* the module succeeds, reverts without payload, reverts with one of two
\* descriptors, or reverts with a truncated payload
ConcResponses ==
    {[kind |-> "ok", raw_error |-> <<>>],
     [kind |-> "err", raw_error |-> <<"z">>],
     [kind |-> "err", raw_error |-> Reason \o bytes_to_hex(Sender \o <<1>>)]}
    \cup {[kind |-> "err", raw_error |-> Reason \o bytes_to_hex(AbiEncode(Sender, u, CallData))] :
             u \in {<<1>>, <<2>>}}

ConcReplies ==
    {[kind |-> "bad_json", data |-> <<>>],
     [kind |-> "json", data |-> <<"0", "x", "1", "2", "3", "4">>]}

NextConc ==
    \E p \in Procs :
        \/ BuildStartOn(p, Modules, ConcMessages)
        \/ CacheRead(p)
        \/ IsmCallFrom(p, ConcResponses)
        \/ CacheWriteWith(p, ConcReplies)
        \/ FetchUrl(p)

SpecConc == Init /\ [][NextConc]_vars

\* ------------------------------------------------------------------------
\* A cache that already holds values this core did not write
\* ------------------------------------------------------------------------

InitPoisoned ==
    /\ cache \in [Keys -> {NoEntry, Malformed}]
    /\ st = [p \in Procs |-> Fresh]
    /\ latest = [k \in Keys |-> NoInfo]

NextPoisoned ==
    \E p \in Sequential :
        \/ BuildStart(p)
        \/ CacheRead(p)
        \/ IsmCallFrom(p, ConcResponses)
        \/ CacheWriteWith(p, ConcReplies)
        \/ FetchUrl(p)

SpecPoisoned == InitPoisoned /\ [][NextPoisoned]_vars

\* ------------------------------------------------------------------------
\* Vocabulary of the properties
\* ------------------------------------------------------------------------

XDigitSet ==
    {"0", "1", "2", "3", "4", "5", "6", "7", "8", "9",
     "a", "b", "c", "d", "e", "f", "A", "B", "C", "D", "E", "F"}

\* the text has a substring `0x` followed by at least one hex digit
HasHexRun(text) ==
    \E k \in 1..(Len(text) - 2) :
        text[k] = "0" /\ text[k + 1] = "x" /\ text[k + 2] \in XDigitSet

\* an even number of hex digits, possibly none
ValidHex(text) ==
    Len(text) % 2 = 0 /\ \A k \in DOMAIN text : text[k] \in XDigitSet

HasPrefix0x(text) == Len(text) >= 2 /\ text[1] = "0" /\ text[2] = "x"

\* a JSON answer whose `data` is "0x" followed by something that is not hex
BadHexReply(reply) ==
    /\ reply.kind = "json"
    /\ HasPrefix0x(reply.data)
    /\ ~ValidHex(SubSeq(reply.data, 3, Len(reply.data)))

\* a well-formed answer: JSON whose `data` is a 0x-prefixed hex string
WellFormedReply(reply) ==
    /\ reply.kind = "json"
    /\ HasPrefix0x(reply.data)
    /\ ValidHex(SubSeq(reply.data, 3, Len(reply.data)))

ProofBytes(reply) == HexPairs(SubSeq(reply.data, 3, Len(reply.data)))

Done(t) == t.pc = "done"

\* ------------------------------------------------------------------------
\* C1..C10
\* ------------------------------------------------------------------------

\* C1: when the request to endpoint k fails at the transport level, build
\* does not return an error: it requests endpoint k+1, or returns None if k
\* was the last.
C1_TransportFailureFallsBack ==
    \A p \in Procs :
        LET t == st[p]
        IN  \A k \in 1..Len(t.requests) :
                t.endpoints[k].kind = "transport_error"
                => /\ t.result.kind # "error"
                   /\ Done(t) /\ k < Len(t.info.urls) => Len(t.requests) > k
                   /\ Done(t) /\ k = Len(t.info.urls) => t.result = NoneResult

\* C2: when an endpoint answers {"data": "0x<not hex>"}, build does not
\* return an error: it requests the next endpoint, or returns None if that
\* endpoint was the last.
C2_BadHexFallsBack ==
    \A p \in Procs :
        LET t == st[p]
        IN  \A k \in 1..Len(t.requests) :
                BadHexReply(t.endpoints[k])
                => /\ t.result.kind # "error"
                   /\ Done(t) /\ k < Len(t.info.urls) => Len(t.requests) > k
                   /\ Done(t) /\ k = Len(t.info.urls) => t.result = NoneResult

\* C3: when some endpoint of the descriptor answers well-formed, a finished
\* build has returned the proof bytes of the first such endpoint and has
\* requested exactly the endpoints up to it.
C3_FirstWellFormedWins ==
    \A p \in Procs :
        LET t == st[p]
            good == {k \in DOMAIN t.endpoints : WellFormedReply(t.endpoints[k])}
        IN  Done(t) /\ t.resolved = "some" /\ good # {}
            => LET first == CHOOSE k \in good : \A j \in good : k <= j
               IN  /\ t.result = [kind |-> "some", bytes |-> ProofBytes(t.endpoints[first])]
                   /\ Len(t.requests) = first

\* C4: when the module call succeeds without reverting, build returns None
\* (not an error) and issues no endpoint request.
C4_OkCallGivesNone ==
    \A p \in Procs :
        LET t == st[p]
        IN  t.response.kind = "ok"
            => /\ Done(t)
               /\ t.resolved = "none"
               /\ t.result = NoneResult
               /\ t.requests = <<>>

C4_Witness ==
    \E p \in Procs : st[p].response.kind = "ok" /\ st[p].ism_calls = 1 /\ Done(st[p])

\* C5 as stated: every resolver invocation performs exactly one cache read
\* and exactly one cache write, whatever its outcome.
C5_OneReadOneWriteAlways ==
    \A p \in Procs :
        st[p].resolved # "pending" => st[p].cache_reads = 1 /\ st[p].cache_writes = 1

\* C5, amended: every resolver invocation performs exactly one cache read;
\* it performs exactly one cache write when it returns a descriptor (cache
\* hit, or payload decoded) and no cache write when it does not (module call
\* succeeded, no payload in the revert, decode error).
C5_OneReadWriteIffDescriptor ==
    \A p \in Procs :
        LET t == st[p]
            no_descriptor ==
                /\ t.response.kind # "none"
                /\ \/ t.response.kind = "ok"
                   \/ ~HasHexRun(t.response.raw_error)
                   \/ t.resolved = "error"
        IN  /\ t.cache_reads <= 1 /\ t.cache_writes <= 1
            /\ t.resolved # "pending" => t.cache_reads = 1
            /\ t.resolved = "some" => t.cache_writes = 1
            /\ no_descriptor => t.cache_writes = 0 /\ t.resolved \in {"none", "error"}
            /\ t.pc \in {"fetch", "done"} /\ t.cache_reads = 1 /\ ~no_descriptor
               => t.cache_writes = 1

C5_Witness ==
    \E p \in Procs :
        /\ st[p].resolved = "none"
        /\ st[p].cache_reads = 1
        /\ st[p].cache_writes = 0

\* C6: a resolver invocation calls the module exactly once when its cache
\* read misses and never when it hits; an invocation that reads the cache
\* while the entry of its key is stored does not call the module.
C6_CallIffMiss ==
    /\ [](\A p \in Procs :
            LET t == st[p]
            IN  /\ t.ism_calls <= 1
                /\ t.cache_reads = 1 /\ t.pc # "ism_call"
                   => t.ism_calls = IF t.info_from_cache = NoEntry THEN 1 ELSE 0
                /\ t.pc = "ism_call" => t.info_from_cache = NoEntry /\ t.ism_calls = 0)
    /\ [][\A p \in Procs :
            /\ st[p].pc = "cache_get" /\ cache[KeyOf(st[p])] # NoEntry
               => st'[p].pc # "ism_call" /\ st'[p].ism_calls = 0
            /\ st[p].pc = "cache_get" /\ cache[KeyOf(st[p])] = NoEntry
               => st'[p].pc = "ism_call"]_vars

C6_Witness ==
    \E p \in Procs :
        /\ st[p].cache_reads = 1
        /\ st[p].info_from_cache # NoEntry
        /\ st[p].ism_calls = 0
        /\ Done(st[p])

C8_UndecodableRunIsError ==
    \A p \in Procs :
        LET t == st[p]
            text == t.response.raw_error
            k == CHOOSE j \in 1..(Len(text) - 2) :
                    /\ text[j] = "0" /\ text[j + 1] = "x" /\ text[j + 2] \in XDigitSet
                    /\ \A i \in 1..(j - 1) :
                          ~(text[i] = "0" /\ text[i + 1] = "x" /\ text[i + 2] \in XDigitSet)
            e == CHOOSE j \in (k + 2)..Len(text) :
                    /\ \A i \in (k + 2)..j : text[i] \in XDigitSet
                    /\ j < Len(text) => text[j + 1] \notin XDigitSet
            run == SubSeq(text, k + 2, e)
        IN  /\ t.response.kind = "err"
            /\ HasHexRun(text)
            /\ ~ValidHex(run) \/ ~AbiDecode(HexPairs(run)).ok
            => /\ Done(t)
               /\ t.resolved = "error"
               /\ t.result = ErrorResult
               /\ t.requests = <<>>
               /\ t.cache_writes = 0

C8_Witness ==
    \E p \in Procs :
        /\ st[p].response.kind = "err"
        /\ st[p].response.raw_error \in TruncatedTexts
        /\ st[p].abi_tried
        /\ st[p].result = ErrorResult

\* C9: when the revert text has no `0x` followed by a hex digit, the resolver
\* returns None without attempting hex or ABI decoding, and build returns
\* None with no endpoint request.
C9_NoRunGivesNoneUndecoded ==
    \A p \in Procs :
        LET t == st[p]
        IN  t.response.kind = "err" /\ ~HasHexRun(t.response.raw_error)
            => /\ t.resolved = "none"
               /\ ~t.hex_tried
               /\ ~t.abi_tried
               /\ t.requests = <<>>
               /\ t.result.kind \notin {"error", "some", "panic"}

C9_Witness ==
    \E p \in Procs :
        /\ st[p].response.kind = "err"
        /\ st[p].response.raw_error = <<"0", "x", "z">>
        /\ st[p].resolved = "none"

\* C10: every request issued is a POST whose JSON body carries both sender
\* and data exactly when the unsubstituted template lacks `{data}`, and is
\* otherwise a GET of the fully substituted URL; the literal template is
\* never requested with GET.
C10_RequestShape ==
    \A p \in Procs :
        LET t == st[p]
        IN  \A k \in DOMAIN t.requests :
                LET r == t.requests[k]
                    tpl == t.info.urls[k]
                    has_data ==
                        \E j \in 1..Len(tpl) :
                            /\ j + Len(DataToken) - 1 <= Len(tpl)
                            /\ \A i \in DOMAIN DataToken : tpl[j + i - 1] = DataToken[i]
                IN  /\ r.method \in {"POST", "GET"}
                    /\ r.method = "POST" <=> ~has_data
                    /\ r.method = "POST"
                       => /\ r.body.sender = <<"0", "x">> \o hex_encode(t.info.sender)
                          /\ r.body.data = <<"0", "x">> \o hex_encode(t.info.call_data)
                          /\ r.content_type = "application/json"
                    /\ r.method = "GET"
                       => /\ r.url # tpl
                          /\ ~StrContains(r.url, DataToken)
                          /\ ~StrContains(r.url, SenderToken)
                          /\ StrContains(r.url, <<"0", "x">> \o hex_encode(t.info.call_data))
                          /\ r.body = NoBody

C10_Witness ==
    \E p \in Procs :
        /\ Len(st[p].requests) = 2
        /\ st[p].requests[1].method = "POST"
        /\ st[p].requests[2].method = "GET"

\* ------------------------------------------------------------------------
\* C11..C20
\* ------------------------------------------------------------------------

\* C11: when the resolved descriptor has no urls, build returns None and
\* issues no request.
C11_NoUrlsGivesNone ==
    \A p \in Procs :
        LET t == st[p]
        IN  t.resolved = "some" /\ Len(t.info.urls) = 0
            => Done(t) /\ t.result = NoneResult /\ t.requests = <<>>

C11_Witness ==
    \E p \in Procs :
        /\ st[p].resolved = "some"
        /\ st[p].info.urls = <<>>
        /\ st[p].info.sender = Sender
        /\ Done(st[p])

C17_BadJsonFallsBack ==
    \A p \in Procs :
        LET t == st[p]
        IN  \A k \in 1..Len(t.requests) :
                t.endpoints[k].kind = "bad_json"
                => /\ k < Len(t.info.urls) /\ Len(t.requests) = k => t.pc = "fetch"
                   /\ k = Len(t.info.urls) => Done(t) /\ t.result = NoneResult

C17_Witness ==
    \E p \in Procs :
        /\ Len(st[p].requests) = 2
        /\ \A k \in 1..2 : st[p].endpoints[k].kind = "bad_json"
        /\ st[p].result = NoneResult

\* C18: an answer whose `data` does not start with `0x` (or is shorter than
\* two characters) never yields Some(bytes) and never crashes build.
C18_UnprefixedDataIsFailure ==
    \A p \in Procs :
        LET t == st[p]
            k == Len(t.requests)
        IN  /\ Done(t)
            /\ k > 0
            /\ t.endpoints[k].kind = "json"
            /\ ~HasPrefix0x(t.endpoints[k].data)
            => t.result.kind \notin {"some", "panic"}

\* the hex digits of the first `0x`+hex run of a text that has one
HexRunOf(text) ==
    LET starts == {j \in 1..(Len(text) - 2) :
                     text[j] = "0" /\ text[j + 1] = "x" /\ text[j + 2] \in XDigitSet}
        k == CHOOSE j \in starts : \A i \in starts : j <= i
        ends == {j \in (k + 2)..Len(text) :
                   /\ \A i \in (k + 2)..j : text[i] \in XDigitSet
                   /\ j < Len(text) => text[j + 1] \notin XDigitSet}
    IN  SubSeq(text, k + 2, CHOOSE j \in ends : TRUE)

\* the module has answered and its answer yields no descriptor
NoDescriptor(t) ==
    /\ t.response.kind # "none"
    /\ \/ t.response.kind = "ok"
       \/ ~HasHexRun(t.response.raw_error)
       \/ ~ValidHex(HexRunOf(t.response.raw_error))
       \/ ~AbiDecode(HexPairs(HexRunOf(t.response.raw_error))).ok

\* C19: an invocation whose resolver yields no descriptor never writes the
\* cache; every change of the cache is the write of an invocation that
\* returns Some(info), of that info, under one key; no entry is removed or
\* replaced by something that is no descriptor.
C19_WriteOnlyWithDescriptor ==
    /\ [](\A p \in Procs :
            st[p].resolved \in {"none", "error"} \/ NoDescriptor(st[p])
            => st[p].cache_writes = 0)
    /\ [][/\ \A key \in Keys :
               /\ cache[key] # NoEntry => cache'[key] # NoEntry
               /\ cache'[key] # cache[key]
                  => /\ cache'[key].stored
                     /\ Deserialize(cache'[key]).sender = Sender
                     /\ Deserialize(cache'[key]).call_data = CallData
          /\ \A p \in Procs :
               st[p].resolved = "pending" /\ st'[p].resolved \in {"none", "error"}
               => cache' = cache
          /\ cache' # cache
             => \E p \in Procs, key \in Keys :
                  /\ st[p].resolved = "pending"
                  /\ st'[p].resolved = "some"
                  /\ st'[p].cache_writes = 1
                  /\ ~NoDescriptor(st[p])
                  /\ cache' = [cache EXCEPT ![key] = cache'[key]]
                  /\ Deserialize(cache'[key]) = st'[p].info]_vars

C19_Witness ==
    \E p \in Procs :
        /\ st[p].resolved = "none"
        /\ st[p].cache_writes = 0
        /\ cache[KeyOf(st[p])] = NoEntry
        /\ \E key \in Keys : cache[key] # NoEntry

\* the key the claim names: module address, the fixed name, raw message bytes
OwnKey(t) == <<t.ism_address, "get_offchain_verify_info", RawMessage(t.message)>>

\* C14: an invocation for (module, message) reads the entry under (module
\* address, get_offchain_verify_info, raw message bytes) and writes the
\* entry under that same key; entries under every other key are unchanged;
\* distinct (module, message) pairs have distinct keys.
C14_OwnKeyOnly ==
    /\ [](\A a1, a2 \in Modules, m1, m2 \in Messages :
            CacheKey(a1, fn_name, RawMessage(m1)) = CacheKey(a2, fn_name, RawMessage(m2))
            <=> a1 = a2 /\ m1 = m2)
    /\ [][\A p \in Procs :
            LET t == st[p]
                t2 == st'[p]
            IN  /\ t.pc = "cache_get" /\ t2.cache_reads = 1
                   => /\ t2.info_from_cache = cache[OwnKey(t)]
                      /\ t2.pc = IF cache[OwnKey(t)] = NoEntry
                                 THEN "ism_call" ELSE "cache_put"
                      /\ cache' = cache
                /\ t2.cache_writes = t.cache_writes + 1
                   => /\ \A key \in Keys \ {OwnKey(t)} : cache'[key] = cache[key]
                      /\ cache'[OwnKey(t)] # NoEntry
                      /\ Deserialize(cache'[OwnKey(t)]) = t.info
                      /\ OwnKey(t2) = OwnKey(t)]_vars

C14_Witness ==
    \E p \in Procs :
        /\ st[p].cache_writes = 1
        /\ cache[OwnKey(st[p])] # NoEntry
        /\ \E key \in Keys :
             /\ key[1] = st[p].ism_address
             /\ cache[key] # NoEntry
             /\ cache[key] # cache[OwnKey(st[p])]
        /\ \E key \in Keys : key[1] # st[p].ism_address /\ cache[key] = NoEntry

\* C20: every build that is under way can take its next step, and ends with
\* exactly one of Some(bytes), None or an error, after at most one cache
\* read, one module call, one cache write and |urls| requests; a build whose
\* module proxy cannot be constructed ends with an error before any cache
\* access, module call or request.
C20_EndsWithOneResult ==
    \A p \in Procs :
        LET t == st[p]
        IN  /\ t.pc \notin {"idle", "done"}
               => ENABLED (CacheRead(p) \/ IsmCall(p) \/ CacheWrite(p) \/ FetchUrl(p))
            /\ Done(t) <=> t.result # Pending
            /\ Done(t) => t.result.kind \in {"some", "none", "error"}
            /\ t.cache_reads <= 1 /\ t.ism_calls <= 1 /\ t.cache_writes <= 1
            /\ Len(t.requests) <= Len(t.info.urls)
            /\ Done(t) /\ t.cache_reads = 0
               => /\ t.result = ErrorResult
                  /\ t.ism_calls = 0 /\ t.cache_writes = 0 /\ t.requests = <<>>

\* the invocation has read the cache and the value under its key is malformed
ReadMalformed(t) == t.cache_reads = 1 /\ cache[OwnKey(t)] = Malformed

PayloadInfo(text) ==
    LET u == CHOOSE v \in TemplateLists :
                 text = Reason \o <<"0", "x">> \o hex_encode(AbiEncode(Sender, v, CallData))
    IN  [sender |-> Sender,
         urls |-> [k \in DOMAIN u |-> UrlTemplates[u[k]]],
         call_data |-> CallData]

\* what the invocation itself obtained: from its cache read on a hit, from
\* the revert of its own module call on a miss
OwnResolution(t) ==
    IF t.info_from_cache # NoEntry
    THEN Deserialize(t.info_from_cache)
    ELSE PayloadInfo(t.response.raw_error)

\* C12: under any interleaving, the descriptor an invocation returns and
\* fetches with is the one it obtained from its own cache read or its own
\* revert decode; its cache write comes after that and writes that same
\* descriptor; steps of other invocations never change it.
C12_ReadYourOwnResolution ==
    /\ [](\A p \in Procs :
            LET t == st[p]
            IN  t.pc \in {"cache_put", "fetch"} \/ t.resolved = "some"
                => /\ t.info = OwnResolution(t)
                   /\ \A k \in DOMAIN t.requests :
                         t.requests[k].template = OwnResolution(t).urls[k])
    /\ [][\A p \in Procs :
            LET t == st[p]
                t2 == st'[p]
            IN  /\ t.pc = "cache_get" /\ t2.cache_reads = 1 /\ cache[OwnKey(t)] # NoEntry
                   => t2.info = Deserialize(cache[OwnKey(t)])
                /\ t2.cache_writes = t.cache_writes + 1
                   => /\ t.cache_reads = 1
                      /\ t.pc = "cache_put"
                      /\ Deserialize(cache'[OwnKey(t)]) = OwnResolution(t)
                      /\ t2.info = OwnResolution(t)
                /\ t.pc \in {"cache_put", "fetch"} => t2.info = t.info]_vars

\* two invocations on one key that both missed and resolved different
\* descriptors: the cache was written between the read and the write of one
C12_Witness ==
    \E p, q \in Procs :
        /\ p # q
        /\ OwnKey(st[p]) = OwnKey(st[q])
        /\ st[p].resolved = "some" /\ st[q].resolved = "some"
        /\ st[p].info_from_cache = NoEntry /\ st[q].info_from_cache = NoEntry
        /\ st[p].info # st[q].info
        /\ Done(st[p]) /\ Done(st[q])

\* no invocation is between its start and its end
Quiescent == \A p \in Procs : st[p].pc \in {"idle", "done"}

\* C13 as stated: once the invocations have ended, the entry of every key
\* that was resolved is the descriptor of the most recent resolution (cache
\* hit or revert decode) for that key.
C13_CacheIsLatestResolution ==
    Quiescent => \A k \in Keys : latest[k] # NoInfo => cache[k] = Serialize(latest[k])

\* C13, amended: an entry changes only by the write-back of an invocation
\* on that key, and after every write-back, on a hit as on a miss, the entry
\* is the descriptor of the invocation that wrote (last writer wins); every
\* invocation that has a descriptor has written back exactly once.
C13_CacheIsLastWriteBack ==
    /\ [](\A p \in Procs :
            st[p].resolved = "some"
            => st[p].cache_writes = 1 /\ cache[OwnKey(st[p])] # NoEntry)
    /\ [][/\ \A k \in Keys :
               cache'[k] # cache[k]
               => \E p \in Procs :
                     /\ st[p].pc = "cache_put"
                     /\ OwnKey(st[p]) = k
                     /\ cache'[k] = Serialize(st[p].info)
          /\ \A p \in Procs :
               st[p].pc = "cache_put" /\ st'[p] # st[p]
               => /\ st'[p].cache_writes = st[p].cache_writes + 1
                  /\ cache'[OwnKey(st[p])] = Serialize(st[p].info)]_vars

\* two invocations on one key have ended, the entry is the descriptor of
\* the one that wrote last, and the other resolved more recently
C13_Witness ==
    \E p, q \in Procs :
        /\ p # q
        /\ Done(st[p]) /\ Done(st[q])
        /\ OwnKey(st[p]) = OwnKey(st[q])
        /\ st[p].resolved = "some" /\ st[q].resolved = "some"
        /\ cache[OwnKey(st[p])] = Serialize(st[p].info)
        /\ latest[OwnKey(st[p])] = st[q].info
        /\ st[p].info # st[q].info

====
